---- MODULE Spec2Model ----
(***************************************************************************)
(* SimpleVector<Type> of simple-vector/simple_vector.h as a state machine. *)
(*                                                                         *)
(* Two vector objects, "a" and "b", live over a heap of element arrays.    *)
(* An ArrayPtr is the address of the array it owns (0 is nullptr), so that *)
(* ownership, release and aliasing are part of the state.  array_ptr.h is  *)
(* not among the sources: ArrayPtr follows the contract the specification  *)
(* gives for the fixed-size buffer owner, and its move leaves the source   *)
(* owning nothing.                                                         *)
(*                                                                         *)
(* Type is int: Type() is 0, a move of an element copies it, and a cell of *)
(* a freshly allocated array holds the indeterminate value Indet until it  *)
(* is written.  C++ positions are 0-based; cell k is heap[p][k + 1].       *)
(*                                                                         *)
(* A member function that reads or writes a cell outside the array its     *)
(* vector owns has undefined behaviour: the call ends with "fault", and    *)
(* the model follows the program no further.                               *)
(***************************************************************************)
EXTENDS Integers, Sequences, FiniteSets, TLC

\* Bounds of the model.
MaxSlots == 3       \* array cells the two vectors may own together after an operation
MaxList == 2        \* longest std::initializer_list given to the constructor
MaxPush == 6        \* PushBack calls followed by the growth specification

Vectors == {"a", "b"}
Values == {0, 1}    \* the values of Type that callers pass
DefaultValue == 0   \* Type()
Indet == -1         \* content of an array cell that was never written
NullPtr == 0        \* ArrayPtr that owns no array

VARIABLES
    vec,    \* vec[x]: the members items_, size_, capacity_ of vector x
    heap,   \* heap[p]: the cells of the allocated array at address p
    last,   \* the last call: operation, arguments, returned iterator, exception
    fault   \* a call accessed cells outside the array its vector owns

vars == <<vec, heap, last, fault>>

-----------------------------------------------------------------------------
\* Results of a member function: the heap and the object afterwards, the
\* exception that left it ("none", "bad_alloc", "out_of_range") or "fault" when
\* it touched cells outside an owned array, and the returned iterator.

NoIter == [p |-> NullPtr, i |-> -1]

Done(h, v) == [h |-> h, v |-> v, err |-> "none", ret |-> NoIter]

DoneIt(h, v, p, i) == [h |-> h, v |-> v, err |-> "none", ret |-> [p |-> p, i |-> i]]

Raise(h, v, e) == [h |-> h, v |-> v, err |-> e, ret |-> NoIter]

-----------------------------------------------------------------------------
\* ArrayPtr<Type> (array_ptr.h): the owner of one fixed-size array.

Cells(h, p) == IF p \in DOMAIN h THEN h[p] ELSE <<>>

\* The address operator new[] hands out: the lowest one not in use.
FreshPtr(h) == CHOOSE p \in 1..(Cardinality(DOMAIN h) + 1) :
                   /\ p \notin DOMAIN h
                   /\ \A q \in 1..(p - 1) : q \in DOMAIN h

\* ArrayPtr(size): no array for size 0, else new Type[size]; ok = FALSE is the
\* allocation throwing std::bad_alloc.
ArrayPtrNew(h, n, ok) ==
    IF n = 0 THEN [h |-> h, p |-> NullPtr, err |-> "none"]
    ELSE IF ~ok THEN [h |-> h, p |-> NullPtr, err |-> "bad_alloc"]
    ELSE LET p == FreshPtr(h)
         IN [h |-> (p :> [k \in 1..n |-> Indet]) @@ h, p |-> p, err |-> "none"]

\* ~ArrayPtr(): delete[] of the owned array.
ArrayPtrDelete(h, p) == [q \in (DOMAIN h) \ {p} |-> h[q]]

\* ArrayPtr& operator=(ArrayPtr&&): the target deletes its array and takes the
\* source's, and the source is left owning no array.
ArrayPtrMoveAssign(h, dst, src) ==
    [h |-> ArrayPtrDelete(h, dst), dst |-> src, src |-> NullPtr]

\* Cells [lo, hi) of the array at p exist.
InArray(h, p, lo, hi) == lo >= hi \/ (lo >= 0 /\ hi <= Len(Cells(h, p)))

Get(h, p, k) == h[p][k + 1]

Put(h, p, k, x) == [h EXCEPT ![p][k + 1] = x]

-----------------------------------------------------------------------------
\* <algorithm>, element by element.

RECURSIVE StdMove(_, _, _, _, _, _)
\* std::move(first, last, d_first): forward, from array src to array dst.
StdMove(h, src, first, lst, dst, dfirst) ==
    IF first >= lst THEN h
    ELSE StdMove(Put(h, dst, dfirst, Get(h, src, first)), src, first + 1, lst, dst, dfirst + 1)

RECURSIVE StdMoveBackward(_, _, _, _, _)
\* std::move_backward(first, last, d_last) within the array p: last element first.
StdMoveBackward(h, p, first, lst, dlast) ==
    IF first >= lst THEN h
    ELSE StdMoveBackward(Put(h, p, dlast - 1, Get(h, p, lst - 1)), p, first, lst - 1, dlast - 1)

RECURSIVE StdFill(_, _, _, _, _)
\* std::fill(first, last, value), and the loops that assign Type() to a range.
StdFill(h, p, first, lst, x) ==
    IF first >= lst THEN h
    ELSE StdFill(Put(h, p, first, x), p, first + 1, lst, x)

RECURSIVE StdMoveFrom(_, _, _, _)
\* std::move(values.begin(), values.end(), d_first) from a range of const
\* elements (an initializer_list, a const vector): each element is copied.
StdMoveFrom(h, values, dst, dfirst) ==
    IF values = <<>> THEN h
    ELSE StdMoveFrom(Put(h, dst, dfirst, Head(values)), Tail(values), dst, dfirst + 1)

-----------------------------------------------------------------------------
\* SimpleVector<Type>: constructors and private members.

\* SimpleVector() noexcept = default, with the member initialisers.
SimpleVector == [items_ |-> NullPtr, size_ |-> 0, capacity_ |-> 0]

\* ~SimpleVector(): the ArrayPtr member deletes its array.
Destroy(h, v) == ArrayPtrDelete(h, v.items_)

\* SimpleVector(size_t size, Type value); SimpleVector(size_t size) is the
\* same with value = Type().
SimpleVectorFill(h, size, value, ok) ==
    LET a == ArrayPtrNew(h, size, ok)
    IN  IF a.err # "none" THEN Raise(h, SimpleVector, a.err)
        ELSE Done(StdFill(a.h, a.p, 0, size, value),
                  [items_ |-> a.p, size_ |-> size, capacity_ |-> size])

SimpleVectorSize(h, size, ok) == SimpleVectorFill(h, size, DefaultValue, ok)

\* swap exchanging the arrays and the sizes but not the capacities.
SwapKeepsCapacity(v, other) ==
    [this |-> [items_ |-> other.items_, size_ |-> other.size_, capacity_ |-> v.capacity_],
     other |-> [items_ |-> v.items_, size_ |-> v.size_, capacity_ |-> other.capacity_]]

\* void swap(SimpleVector& other) noexcept: the pair (this, other) afterwards.
Swap(v, other) ==
    [this |-> [items_ |-> other.items_, size_ |-> other.size_, capacity_ |-> other.capacity_],
     other |-> [items_ |-> v.items_, size_ |-> v.size_, capacity_ |-> v.capacity_]]

\* The elements [begin(), end()) of a vector read as a range; valid is FALSE
\* when they do not lie in the array the vector owns.
Range(h, v) ==
    IF InArray(h, v.items_, 0, v.size_)
    THEN [valid |-> TRUE, seq |-> [k \in 1..v.size_ |-> Get(h, v.items_, k - 1)]]
    ELSE [valid |-> FALSE, seq |-> <<>>]

ListRange(init) == [valid |-> TRUE, seq |-> init]

\* void Assign(const Values& values, size_t size) on the object v: a temporary
\* of size elements, the values moved into it, swap, the temporary destroyed.
Assign(h, v, values, size, ok) ==
    LET t == SimpleVectorSize(h, size, ok)
    IN  IF t.err # "none" THEN Raise(h, v, t.err)
        ELSE IF ~values.valid \/ ~InArray(t.h, t.v.items_, 0, Len(values.seq))
        THEN Raise(t.h, v, "fault")
        ELSE LET h1 == StdMoveFrom(t.h, values.seq, t.v.items_, 0)
                 s == Swap(v, t.v)
             IN  Done(Destroy(h1, s.other), s.this)

\* Reallocate recording the new capacity before it has the new array.
ReallocateCountsFirst(h, v, new_capacity, ok) ==
    LET a == ArrayPtrNew(h, new_capacity, ok)
        w == [v EXCEPT !.capacity_ = new_capacity]
    IN  IF a.err # "none" THEN Raise(h, w, a.err)
        ELSE IF ~InArray(a.h, v.items_, 0, v.size_) \/ ~InArray(a.h, a.p, 0, v.size_)
        THEN Raise(a.h, w, "fault")
        ELSE LET h1 == StdMove(a.h, v.items_, 0, v.size_, a.p, 0)
             IN  Done(ArrayPtrDelete(h1, v.items_), [w EXCEPT !.items_ = a.p])

\* void Reallocate(size_t new_capacity).
Reallocate(h, v, new_capacity, ok) ==
    LET a == ArrayPtrNew(h, new_capacity, ok)
    IN  IF a.err # "none" THEN Raise(h, v, a.err)
        ELSE IF ~InArray(a.h, v.items_, 0, v.size_) \/ ~InArray(a.h, a.p, 0, v.size_)
        THEN Raise(a.h, v, "fault")
        ELSE LET h1 == StdMove(a.h, v.items_, 0, v.size_, a.p, 0)
             IN  Done(ArrayPtrDelete(h1, v.items_),
                      [items_ |-> a.p, size_ |-> v.size_, capacity_ |-> new_capacity])

\* SimpleVector(std::initializer_list<Type> init).
SimpleVectorList(h, init, ok) == Assign(h, SimpleVector, ListRange(init), Len(init), ok)

\* SimpleVector(const SimpleVector& other).
SimpleVectorCopy(h, other, ok) == Assign(h, SimpleVector, Range(h, other), other.size_, ok)

\* void Reserve(size_t new_capacity).
Reserve(h, v, new_capacity, ok) ==
    IF v.capacity_ < new_capacity THEN Reallocate(h, v, new_capacity, ok) ELSE Done(h, v)

\* SimpleVector(const ReserveProxyObj& obj).
SimpleVectorReserve(h, capacity_to_reserve, ok) ==
    Reserve(h, SimpleVector, capacity_to_reserve, ok)

\* The move constructor taking the array and copying the counts, as a
\* member-wise move does.
SimpleVectorMoveKeepsCounts(h, other) ==
    LET m == ArrayPtrMoveAssign(h, SimpleVector.items_, other.items_)
    IN  [h |-> m.h,
         this |-> [items_ |-> m.dst, size_ |-> other.size_, capacity_ |-> other.capacity_],
         other |-> [items_ |-> m.src, size_ |-> other.size_, capacity_ |-> other.capacity_]]

\* SimpleVector(SimpleVector&& other): [h, this, other] afterwards.
SimpleVectorMove(h, other) ==
    LET m == ArrayPtrMoveAssign(h, SimpleVector.items_, other.items_)
    IN  [h |-> m.h,
         this |-> [items_ |-> m.dst, size_ |-> other.size_, capacity_ |-> other.capacity_],
         other |-> [items_ |-> m.src, size_ |-> 0, capacity_ |-> 0]]

\* SimpleVector& operator=(SimpleVector&&) = default: each member is
\* move-assigned, and the move of a size_t copies it.
MoveAssign(h, v, rhs) ==
    LET m == ArrayPtrMoveAssign(h, v.items_, rhs.items_)
    IN  [h |-> m.h,
         this |-> [items_ |-> m.dst, size_ |-> rhs.size_, capacity_ |-> rhs.capacity_],
         other |-> [items_ |-> m.src, size_ |-> rhs.size_, capacity_ |-> rhs.capacity_]]

\* SimpleVector& operator=(const SimpleVector& rhs), this != &rhs.
CopyAssign(h, v, rhs, ok) ==
    LET t == SimpleVectorCopy(h, rhs, ok)
    IN  IF t.err # "none" THEN Raise(t.h, v, t.err)
        ELSE LET s == Swap(v, t.v)
             IN  Done(Destroy(t.h, s.other), s.this)

-----------------------------------------------------------------------------
\* SimpleVector<Type>: the mutators.

\* PushBack growing a full array by one cell instead of doubling it.
PushBackGrowsByOne(h, v, item, ok) ==
    LET r1 == IF v.capacity_ = 0 THEN Reallocate(h, v, 1, ok) ELSE Done(h, v)
    IN  IF r1.err # "none" THEN r1
        ELSE LET r2 == IF r1.v.size_ = r1.v.capacity_
                       THEN Reallocate(r1.h, r1.v, r1.v.capacity_ + 1, ok)
                       ELSE Done(r1.h, r1.v)
             IN  IF r2.err # "none" THEN r2
                 ELSE Done(Put(r2.h, r2.v.items_, r2.v.size_, item),
                           [r2.v EXCEPT !.size_ = @ + 1])

\* void PushBack(Type item).
PushBack(h, v, item, ok) ==
    LET r1 == IF v.capacity_ = 0 THEN Reallocate(h, v, 1, ok) ELSE Done(h, v)
    IN  IF r1.err # "none" THEN r1
        ELSE LET r2 == IF r1.v.size_ = r1.v.capacity_
                       THEN Reallocate(r1.h, r1.v, r1.v.capacity_ * 2, ok)
                       ELSE Done(r1.h, r1.v)
             IN  IF r2.err # "none" THEN r2
                 ELSE IF ~InArray(r2.h, r2.v.items_, r2.v.size_, r2.v.size_ + 1)
                 THEN Raise(r2.h, r2.v, "fault")
                 ELSE Done(Put(r2.h, r2.v.items_, r2.v.size_, item),
                           [r2.v EXCEPT !.size_ = @ + 1])

\* Iterator Insert(ConstIterator pos, Type value), pos = begin() + i.
Insert(h, v, i, value, ok) ==
    IF v.size_ < v.capacity_
    THEN IF ~InArray(h, v.items_, i, v.size_ + 1) THEN Raise(h, v, "fault")
         ELSE LET h1 == StdMoveBackward(h, v.items_, i, v.size_, v.size_ + 1)
                  h2 == Put(h1, v.items_, i, value)
              IN  DoneIt(h2, [v EXCEPT !.size_ = @ + 1], v.items_, i)
    ELSE LET new_capacity == IF v.size_ = 0 THEN 1 ELSE v.capacity_ * 2
             t == SimpleVectorSize(h, new_capacity, ok)
         IN  IF t.err # "none" THEN Raise(h, v, t.err)
             ELSE IF ~InArray(t.h, v.items_, 0, v.size_)
                     \/ ~InArray(t.h, t.v.items_, 0, v.size_ + 1)
             THEN Raise(t.h, v, "fault")
             ELSE LET h1 == StdMove(t.h, v.items_, 0, i, t.v.items_, 0)
                      h2 == Put(h1, t.v.items_, i, value)
                      h3 == StdMove(h2, v.items_, i, v.size_, t.v.items_, i + 1)
                      s == Swap(v, [t.v EXCEPT !.size_ = v.size_ + 1])
                  IN  DoneIt(Destroy(h3, s.other), s.this, t.v.items_, i)

\* The arrays a call of PushBack allocates: one for each Reallocate it reaches.
PushBackAllocations(v) ==
    LET first == IF v.capacity_ = 0 THEN 1 ELSE 0
        capacity == IF v.capacity_ = 0 THEN 1 ELSE v.capacity_
    IN  first + (IF v.size_ = capacity THEN 1 ELSE 0)

\* The arrays a call of Insert allocates: that of tmp, when the array is full.
InsertAllocations(v) == IF v.size_ < v.capacity_ THEN 0 ELSE 1

\* void PopBack() noexcept.
PopBack(h, v) == Done(h, [v EXCEPT !.size_ = @ - 1])

\* Iterator Erase(ConstIterator pos), pos = begin() + i.
Erase(h, v, i) ==
    IF ~InArray(h, v.items_, i, v.size_ - 1) \/ ~InArray(h, v.items_, i + 1, v.size_)
    THEN Raise(h, v, "fault")
    ELSE DoneIt(StdMove(h, v.items_, i + 1, v.size_, v.items_, i),
                [v EXCEPT !.size_ = @ - 1], v.items_, i)

\* Clear giving the array back.
ClearReleasesArray(h, v) == Done(Destroy(h, v), SimpleVector)

\* void Clear() noexcept.
Clear(h, v) == Done(h, [v EXCEPT !.size_ = 0])

\* Resize taking the new size for the capacity when it shrinks.
ResizeShrinksToFit(h, v, new_size, ok) ==
    LET shrink == new_size < v.size_
        new_capacity == IF new_size > v.capacity_ * 2 THEN new_size ELSE v.capacity_ * 2
        r == IF new_size > v.capacity_ THEN Reallocate(h, v, new_capacity, ok) ELSE Done(h, v)
    IN  IF shrink THEN Done(h, [v EXCEPT !.size_ = new_size, !.capacity_ = new_size])
        ELSE IF r.err # "none" THEN r
        ELSE IF new_size > r.v.size_ /\ ~InArray(r.h, r.v.items_, r.v.size_, new_size)
        THEN Raise(r.h, r.v, "fault")
        ELSE Done(StdFill(r.h, r.v.items_, r.v.size_, new_size, DefaultValue),
                  [r.v EXCEPT !.size_ = new_size])

\* void Resize(size_t new_size).
Resize(h, v, new_size, ok) ==
    LET new_capacity == IF new_size > v.capacity_ * 2 THEN new_size ELSE v.capacity_ * 2
        r == IF new_size > v.capacity_ THEN Reallocate(h, v, new_capacity, ok) ELSE Done(h, v)
    IN  IF r.err # "none" THEN r
        ELSE IF new_size > r.v.size_ /\ ~InArray(r.h, r.v.items_, r.v.size_, new_size)
        THEN Raise(r.h, r.v, "fault")
        ELSE Done(StdFill(r.h, r.v.items_, r.v.size_, new_size, DefaultValue),
                  [r.v EXCEPT !.size_ = new_size])

-----------------------------------------------------------------------------
\* SimpleVector<Type>: element access.

\* Type& At(size_t index), and its const overload: the exception, or the
\* element the returned reference designates.
At(h, v, index) ==
    IF index >= v.size_ THEN [err |-> "out_of_range", val |-> -1]
    ELSE IF ~InArray(h, v.items_, index, index + 1) THEN [err |-> "fault", val |-> -1]
    ELSE [err |-> "none", val |-> Get(h, v.items_, index)]

-----------------------------------------------------------------------------
\* The comparison operators.

RECURSIVE StdEqual(_, _, _, _, _)
\* std::equal over [first1, first1 + n) and [first2, first2 + n), from k on.
StdEqual(h, p1, p2, k, n) ==
    IF k >= n THEN TRUE
    ELSE IF Get(h, p1, k) # Get(h, p2, k) THEN FALSE
    ELSE StdEqual(h, p1, p2, k + 1, n)

\* bool operator==(lhs, rhs); same is &lhs == &rhs.
OperatorEq(h, lhs, rhs, same) ==
    IF same THEN [err |-> "none", val |-> TRUE]
    ELSE IF lhs.size_ = rhs.size_
    THEN IF ~InArray(h, lhs.items_, 0, lhs.size_) \/ ~InArray(h, rhs.items_, 0, rhs.size_)
         THEN [err |-> "fault", val |-> FALSE]
         ELSE [err |-> "none", val |-> StdEqual(h, lhs.items_, rhs.items_, 0, lhs.size_)]
    ELSE [err |-> "none", val |-> FALSE]

RECURSIVE StdLexicographicalCompare(_, _, _, _, _, _)
\* std::lexicographical_compare over [first1, first1 + n1) and
\* [first2, first2 + n2), from k on.
StdLexicographicalCompare(h, p1, n1, p2, n2, k) ==
    IF k >= n1 \/ k >= n2 THEN k >= n1 /\ k < n2
    ELSE IF Get(h, p1, k) < Get(h, p2, k) THEN TRUE
    ELSE IF Get(h, p2, k) < Get(h, p1, k) THEN FALSE
    ELSE StdLexicographicalCompare(h, p1, n1, p2, n2, k + 1)

\* The result of a comparison negated.
Not(r) == [r EXCEPT !.val = ~r.val /\ r.err = "none"]

\* bool operator!=(lhs, rhs).
OperatorNe(h, lhs, rhs, same) == Not(OperatorEq(h, lhs, rhs, same))

\* bool operator<(lhs, rhs).
OperatorLt(h, lhs, rhs) ==
    IF ~InArray(h, lhs.items_, 0, lhs.size_) \/ ~InArray(h, rhs.items_, 0, rhs.size_)
    THEN [err |-> "fault", val |-> FALSE]
    ELSE [err |-> "none",
          val |-> StdLexicographicalCompare(h, lhs.items_, lhs.size_, rhs.items_, rhs.size_, 0)]

\* bool operator<=(lhs, rhs).
OperatorLe(h, lhs, rhs) == Not(OperatorLt(h, rhs, lhs))

\* bool operator>(lhs, rhs).
OperatorGt(h, lhs, rhs) == OperatorLt(h, rhs, lhs)

\* bool operator>=(lhs, rhs).
OperatorGe(h, lhs, rhs) == OperatorLe(h, rhs, lhs)

\* The comparison written op on lhs and rhs.
Compare(op, h, lhs, rhs, same) ==
    CASE op = "==" -> OperatorEq(h, lhs, rhs, same)
      [] op = "!=" -> OperatorNe(h, lhs, rhs, same)
      [] op = "<" -> OperatorLt(h, lhs, rhs)
      [] op = "<=" -> OperatorLe(h, lhs, rhs)
      [] op = ">" -> OperatorGt(h, lhs, rhs)
      [] op = ">=" -> OperatorGe(h, lhs, rhs)

Comparisons == {"==", "!=", "<", "<=", ">", ">="}

-----------------------------------------------------------------------------
\* The program: calls on the two vectors, one at a time.  last holds what the
\* call just made gave back until the caller has taken it (Resume).

RECURSIVE SlotsIn(_, _)
SlotsIn(h, ps) ==
    IF ps = {} THEN 0
    ELSE LET p == CHOOSE q \in ps : TRUE IN Len(h[p]) + SlotsIn(h, ps \ {p})

Slots(h) == SlotsIn(h, DOMAIN h)

RECURSIVE Ascending(_)
Ascending(ps) ==
    IF ps = {} THEN <<>>
    ELSE LET p == CHOOSE q \in ps : \A r \in ps : q <= r IN <<p>> \o Ascending(ps \ {p})

\* The numeric value of an address is not observable, only which pointers are
\* equal: addresses are renamed so that the array of "a" comes first, then
\* that of "b", then arrays no vector owns; a pointer to a deleted array gets
\* the first address after them.
Renamed(h, V, ret) ==
    LET pa == V["a"].items_
        pb == V["b"].items_
        owned == (IF pa \in DOMAIN h THEN <<pa>> ELSE <<>>)
                 \o (IF pb \in DOMAIN h /\ pb # pa THEN <<pb>> ELSE <<>>)
        order == owned \o Ascending(DOMAIN h \ {owned[k] : k \in 1..Len(owned)})
        Addr(p) == IF p = NullPtr THEN NullPtr
                   ELSE IF \E k \in 1..Len(order) : order[k] = p
                   THEN CHOOSE k \in 1..Len(order) : order[k] = p
                   ELSE Len(order) + 1
    IN  [h |-> [k \in 1..Len(order) |-> h[order[k]]],
         vec |-> [x \in Vectors |-> [V[x] EXCEPT !.items_ = Addr(@)]],
         ret |-> [ret EXCEPT !.p = Addr(@)]]

Lists == UNION {[1..n -> Values] : n \in 0..MaxList}

Idle == [op |-> "-", x |-> "a", y |-> "a", arg |-> -1, val |-> -1, cap |-> 0,
         err |-> "none", ret |-> NoIter]

\* What the caller holds after a call: which call it was on which objects, the
\* exception or the returned iterator, and, unless the call threw bad_alloc,
\* its arguments and the capacity of x before it.
Result(op, x, y, arg, val, err, ret) ==
    IF err # "bad_alloc"
    THEN [op |-> op, x |-> x, y |-> y, arg |-> arg, val |-> val,
          cap |-> vec[x].capacity_, err |-> err, ret |-> ret]
    ELSE [op |-> op, x |-> x, y |-> y, arg |-> -1, val |-> -1,
          cap |-> 0, err |-> err, ret |-> NoIter]

\* The call op on x (and y) ended with err, leaving heap h and vectors V.
Ended(op, x, y, arg, val, h, V, err, ret) ==
    /\ ~fault
    /\ IF err = "fault"
       THEN /\ fault' = TRUE
            /\ UNCHANGED <<vec, heap>>
            /\ last' = Result(op, x, y, arg, val, err, NoIter)
       ELSE LET c == Renamed(h, V, ret)
            IN  /\ vec' = c.vec
                /\ heap' = c.h
                /\ UNCHANGED fault
                /\ last' = Result(op, x, y, arg, val, err, c.ret)

\* A member function of x returned or threw with result r.
Call(op, x, y, arg, val, r) ==
    Ended(op, x, y, arg, val, r.h, [vec EXCEPT ![x] = r.v], r.err, r.ret)

\* A constructor ran with result r: the new object takes the name x, and the
\* object that had it is destroyed.  A constructor that throws leaves no object.
Construct(op, x, y, r) ==
    IF r.err = "none"
    THEN Ended(op, x, y, -1, -1, Destroy(r.h, vec[x]), [vec EXCEPT ![x] = r.v], r.err, r.ret)
    ELSE Ended(op, x, y, -1, -1, heap, vec, r.err, r.ret)

\* A call on the two objects x and y left them as m.this and m.other.
Call2(op, x, y, m) ==
    Ended(op, x, y, -1, -1, m.h, [vec EXCEPT ![x] = m.this, ![y] = m.other], "none", NoIter)

\* A call of the program is made when the result of the one before is taken,
\* and its outcome fits the memory of the model.
Ready == last = Idle

Fits == Slots(heap') <= MaxSlots

Init ==
    /\ vec = [x \in Vectors |-> SimpleVector]
    /\ heap = <<>>
    /\ last = Idle
    /\ fault = FALSE

DefaultCtor ==
    \E x \in Vectors :
        /\ Ready
        /\ Construct("SimpleVector()", x, x, Done(heap, SimpleVector))
        /\ Fits

SizeCtor ==
    \E x \in Vectors, n \in 0..MaxSlots, ok \in BOOLEAN :
        /\ Ready
        /\ Construct("SimpleVector(size)", x, x, SimpleVectorSize(heap, n, ok))
        /\ Fits

FillCtor ==
    \E x \in Vectors, n \in 0..MaxSlots, value \in Values, ok \in BOOLEAN :
        /\ Ready
        /\ Construct("SimpleVector(size,value)", x, x,
                     SimpleVectorFill(heap, n, value, ok))
        /\ Fits

ListCtor ==
    \E x \in Vectors, init \in Lists, ok \in BOOLEAN :
        /\ Ready
        /\ Construct("SimpleVector(init)", x, x,
                     SimpleVectorList(heap, init, ok))
        /\ Fits

ReserveCtor ==
    \E x \in Vectors, n \in 0..MaxSlots, ok \in BOOLEAN :
        /\ Ready
        /\ Construct("SimpleVector(Reserve)", x, x, SimpleVectorReserve(heap, n, ok))
        /\ Fits

CopyCtor ==
    \E x \in Vectors, y \in Vectors, ok \in BOOLEAN :
        /\ Ready
        /\ x # y
        /\ Construct("SimpleVector(const&)", x, y,
                     SimpleVectorCopy(heap, vec[y], ok))
        /\ Fits

MoveCtor ==
    \E x \in Vectors, y \in Vectors :
        /\ Ready
        /\ x # y
        /\ LET m == SimpleVectorMove(heap, vec[y])
           IN  Call2("SimpleVector(&&)", x, y,
                     [h |-> Destroy(m.h, vec[x]), this |-> m.this, other |-> m.other])
        /\ Fits

CopyAssignment ==
    \E x \in Vectors, y \in Vectors, ok \in BOOLEAN :
        /\ Ready
        /\ IF x = y
           THEN Call("operator=(const&)", x, y, -1, -1, Done(heap, vec[x]))
           ELSE Call("operator=(const&)", x, y, -1, -1, CopyAssign(heap, vec[x], vec[y], ok))
        /\ Fits

MoveAssignment ==
    \E x \in Vectors, y \in Vectors :
        /\ Ready
        /\ x # y
        /\ Call2("operator=(&&)", x, y, MoveAssign(heap, vec[x], vec[y]))
        /\ Fits

ReserveCall ==
    \E x \in Vectors, n \in 0..MaxSlots, ok \in BOOLEAN :
        /\ Ready
        /\ Call("Reserve", x, x, n, -1, Reserve(heap, vec[x], n, ok))
        /\ Fits

SwapCall ==
    \E x \in Vectors, y \in Vectors :
        /\ Ready
        /\ x # y
        /\ LET s == Swap(vec[x], vec[y])
           IN  Call2("swap", x, y, [h |-> heap, this |-> s.this, other |-> s.other])
        /\ Fits

PushBackCall ==
    \E x \in Vectors, item \in Values, ok \in BOOLEAN :
        /\ Ready
        /\ Call("PushBack", x, x, -1, item, PushBack(heap, vec[x], item, ok))
        /\ Fits

InsertCall ==
    \E x \in Vectors, value \in Values, ok \in BOOLEAN :
        \E i \in 0..vec[x].size_ :
            /\ Ready
            /\ Call("Insert", x, x, i, value, Insert(heap, vec[x], i, value, ok))
            /\ Fits

PopBackCall ==
    \E x \in Vectors :
        /\ Ready
        /\ vec[x].size_ # 0
        /\ Call("PopBack", x, x, -1, -1, PopBack(heap, vec[x]))
        /\ Fits

EraseCall ==
    \E x \in Vectors :
        \E i \in 0..(vec[x].size_ - 1) :
            /\ Ready
            /\ Call("Erase", x, x, i, -1, Erase(heap, vec[x], i))
            /\ Fits

ClearCall ==
    \E x \in Vectors :
        /\ Ready
        /\ Call("Clear", x, x, -1, -1, Clear(heap, vec[x]))
        /\ Fits

ResizeCall ==
    \E x \in Vectors, n \in 0..MaxSlots, ok \in BOOLEAN :
        /\ Ready
        /\ Call("Resize", x, x, n, -1, Resize(heap, vec[x], n, ok))
        /\ Fits

AtCall ==
    \E x \in Vectors, index \in 0..MaxSlots :
        /\ Ready
        /\ LET r == At(heap, vec[x], index)
           IN  Ended("At", x, x, index, r.val, heap, vec, r.err, NoIter)
        /\ Fits

\* A comparison of x with y; the caller holds the bool as 1 or 0.
CompareCall ==
    \E op \in Comparisons, x \in Vectors, y \in Vectors :
        /\ Ready
        /\ LET r == Compare(op, heap, vec[x], vec[y], x = y)
           IN  Ended(op, x, y, -1, IF r.val THEN 1 ELSE 0, heap, vec, r.err, NoIter)
        /\ Fits

\* The caller has taken the result of the call and goes on.
Resume ==
    /\ ~fault
    /\ last # Idle
    /\ last' = Idle
    /\ UNCHANGED <<vec, heap, fault>>

Next ==
    \/ DefaultCtor
    \/ SizeCtor
    \/ FillCtor
    \/ ListCtor
    \/ ReserveCtor
    \/ CopyCtor
    \/ MoveCtor
    \/ CopyAssignment
    \/ MoveAssignment
    \/ ReserveCall
    \/ SwapCall
    \/ PushBackCall
    \/ InsertCall
    \/ PopBackCall
    \/ EraseCall
    \/ ClearCall
    \/ ResizeCall
    \/ AtCall
    \/ CompareCall
    \/ Resume

Spec == Init /\ [][Next]_vars

\* The growth law is followed on one default-constructed vector that is only
\* pushed to, every allocation succeeding.
GrowthPush ==
    \E item \in Values :
        /\ ~fault
        /\ vec["a"].size_ < MaxPush
        /\ Call("PushBack", "a", "a", -1, item, PushBack(heap, vec["a"], item, TRUE))

GrowthNext == GrowthPush

SpecGrowth == Init /\ [][GrowthNext]_vars

\* The capacity policy is followed on one vector that is reserved, pushed to,
\* inserted into and popped from, every allocation succeeding, up to MaxPush
\* cells.
PolicyFits == Slots(heap') <= MaxPush

PolicyReserve ==
    \E n \in 0..MaxSlots :
        /\ ~fault
        /\ Call("Reserve", "a", "a", n, -1, Reserve(heap, vec["a"], n, TRUE))
        /\ PolicyFits

PolicyPushBack ==
    \E item \in Values :
        /\ ~fault
        /\ Call("PushBack", "a", "a", -1, item, PushBack(heap, vec["a"], item, TRUE))
        /\ PolicyFits

PolicyInsert ==
    \E value \in Values :
        \E i \in 0..vec["a"].size_ :
            /\ ~fault
            /\ Call("Insert", "a", "a", i, value, Insert(heap, vec["a"], i, value, TRUE))
            /\ PolicyFits

PolicyPopBack ==
    /\ ~fault
    /\ vec["a"].size_ # 0
    /\ Call("PopBack", "a", "a", -1, -1, PopBack(heap, vec["a"]))

PolicyNext ==
    \/ PolicyReserve
    \/ PolicyPushBack
    \/ PolicyInsert
    \/ PolicyPopBack

SpecPolicy == Init /\ [][PolicyNext]_vars

-----------------------------------------------------------------------------
\* What the properties speak of.

\* The elements at positions [0, size) of a vector, a position outside the
\* array it owns reading as Indet.
Elements(h, v) ==
    [k \in 1..v.size_ |-> IF k <= Len(Cells(h, v.items_)) THEN Cells(h, v.items_)[k] ELSE Indet]

\* The array a vector owns, cell by cell.
Buffer(h, v) == Cells(h, v.items_)

RECURSIVE PowerOfTwoFrom(_)
\* The smallest power of two that is >= n, for n >= 1.
PowerOfTwoFrom(n) == IF n <= 1 THEN 1 ELSE 2 * PowerOfTwoFrom((n + 1) \div 2)

Other(x) == CHOOSE y \in Vectors : y # x

-----------------------------------------------------------------------------
\* C1: in every reachable state every vector, the source of a move included,
\* has 0 <= size <= capacity, and its capacity is the length of the array it
\* owns.  Fails for the source of operator=(SimpleVector&&).
C1_SizeCapacityBuffer ==
    \A x \in Vectors :
        /\ 0 <= vec[x].size_
        /\ vec[x].size_ <= vec[x].capacity_
        /\ vec[x].capacity_ = Len(Buffer(heap, vec[x]))

\* C2: b = std::move(a) for distinct a and b leaves a with size 0 and
\* capacity 0, and b with the size, capacity and elements a had.  Fails: the
\* defaulted operator leaves the source's size_ and capacity_ as they were.
C2_MoveAssignEmptiesSource ==
    [][last'.op = "operator=(&&)" =>
          /\ vec'[last'.y].size_ = 0
          /\ vec'[last'.y].capacity_ = 0
          /\ vec'[last'.x].size_ = vec[last'.y].size_
          /\ vec'[last'.x].capacity_ = vec[last'.y].capacity_
          /\ Elements(heap', vec'[last'.x]) = Elements(heap, vec[last'.y])]_vars

\* C3: from a default-constructed vector, each of N >= 1 successive PushBack
\* calls adds one to the size, appends the pushed value after the elements
\* already there, and leaves the capacity at the smallest power of two >= the
\* new size (so the capacity passes through 1, 2, 4, 8, ...).
C3_GrowthLaw ==
    [][/\ vec'["a"].size_ = vec["a"].size_ + 1
       /\ Elements(heap', vec'["a"]) = Append(Elements(heap, vec["a"]), last'.val)
       /\ vec'["a"].capacity_ = PowerOfTwoFrom(vec'["a"].size_)]_vars

\* Five pushes were made and the capacity has passed 1, 2 and 4.
C3_Witness ==
    /\ last.op = "PushBack"
    /\ vec["a"].size_ = 5
    /\ vec["a"].capacity_ = 8

\* A vector whose size_ and capacity_ describe the array it owns.
Sound(h, v) == v.size_ <= v.capacity_ /\ v.capacity_ = Len(Buffer(h, v))

\* The step is a call of op that did not end in bad_alloc.
Made(op) == last'.op = op /\ last'.err # "bad_alloc"

\* What C4 says of an Insert step.
InsertLaw ==
    /\ last'.err = "none"
    /\ LET x == last'.x
           i == last'.arg
           s == Elements(heap, vec[x])
       IN  /\ Elements(heap', vec'[x])
                  = SubSeq(s, 1, i) \o <<last'.val>> \o SubSeq(s, i + 1, Len(s))
           /\ vec'[x].size_ = vec[x].size_ + 1
           /\ last'.ret = [p |-> vec'[x].items_, i |-> i]

\* C4: Insert(begin() + i, v) on a vector with elements s, 0 <= i <= size,
\* leaves the elements s[0..i) ++ [v] ++ s[i..size) and the size one larger,
\* in place or after reallocating, and returns the position i of the array the
\* vector owns afterwards.  Fails on the source of operator=(SimpleVector&&),
\* whose size_ and capacity_ speak of an array it no longer owns (C2).
C4_Insert == [][Made("Insert") => InsertLaw]_vars

\* What C5 says of an Erase step.
EraseLaw ==
    /\ last'.err = "none"
    /\ LET x == last'.x
           i == last'.arg
           s == Elements(heap, vec[x])
       IN  /\ Elements(heap', vec'[x]) = SubSeq(s, 1, i) \o SubSeq(s, i + 2, Len(s))
           /\ vec'[x].size_ = vec[x].size_ - 1
           /\ vec'[x].capacity_ = vec[x].capacity_
           /\ last'.ret = [p |-> vec'[x].items_, i |-> i]

\* C5: Erase(begin() + i) on a vector with elements s, 0 <= i < size, leaves
\* s[0..i) ++ s[i+1..size), the size one smaller and the capacity as it was,
\* and returns the position i.  Fails on the source of
\* operator=(SimpleVector&&) that kept two or more elements in size_ (C2).
C5_Erase == [][Made("Erase") => EraseLaw]_vars

\* What C6 says of an Insert step: Erase at the returned position undoes it.
InsertEraseLaw ==
    /\ last'.err = "none"
    /\ last'.ret.p = vec'[last'.x].items_
    /\ LET r == Erase(heap', vec'[last'.x], last'.ret.i)
       IN  /\ r.err = "none"
           /\ r.v.size_ = vec[last'.x].size_
           /\ Elements(r.h, r.v) = Elements(heap, vec[last'.x])

\* C6: Erase at the position Insert returned gives back a vector with the size
\* and the elements it had before the Insert.  Fails with C4, on the source
\* of operator=(SimpleVector&&) (C2).
C6_EraseUndoesInsert == [][Made("Insert") => InsertEraseLaw]_vars

\* The calls that act on one vector only.
OneVectorCalls ==
    {"SimpleVector()", "SimpleVector(size)", "SimpleVector(size,value)",
     "SimpleVector(init)", "SimpleVector(Reserve)", "Reserve", "PushBack", "Insert",
     "PopBack", "Erase", "Clear", "Resize"}

\* Vector x is as it was: its members, and the array it owns cell by cell.
Kept(x) ==
    /\ vec'[x].size_ = vec[x].size_
    /\ vec'[x].capacity_ = vec[x].capacity_
    /\ Buffer(heap', vec'[x]) = Buffer(heap, vec[x])

\* What C7 says of a copy construction x(y), and of a later call on one vector.
CopyLaw ==
    /\ last'.err = "none"
    /\ LET eq == OperatorEq(heap', vec'[last'.y], vec'[last'.x], FALSE)
       IN  eq.err = "none" /\ eq.val
    /\ vec'[last'.x].size_ = vec[last'.y].size_
    /\ vec'[last'.x].capacity_ = vec[last'.y].size_
    /\ Elements(heap', vec'[last'.x]) = Elements(heap, vec[last'.y])
    /\ Kept(last'.y)

\* C7: after b = Copy(a), a == b, b.size == b.capacity == a.size, a is as it
\* was, and a call that mutates one of the two vectors leaves the other as it
\* was.  Fails for the copy of a source of operator=(SimpleVector&&) (C2).
C7_CopyIsDeep ==
    [][/\ Made("SimpleVector(const&)") => CopyLaw
       /\ last'.op \in OneVectorCalls => Kept(Other(last'.x))]_vars

\* What C8 says of x = y.
CopyAssignLaw ==
    LET x == last'.x
        y == last'.y
    IN  IF x = y THEN last'.err = "none" /\ Kept(x)
        ELSE IF last'.err = "bad_alloc" THEN Kept(x) /\ Kept(y)
        ELSE /\ last'.err = "none"
             /\ LET eq == OperatorEq(heap', vec'[x], vec'[y], FALSE)
                IN  eq.err = "none" /\ eq.val
             /\ vec'[x].size_ = vec[y].size_
             /\ vec'[x].capacity_ = vec[y].size_
             /\ Elements(heap', vec'[x]) = Elements(heap, vec[y])
             /\ Kept(y)

\* C8: copy assignment leaves the target as it was when the allocation of the
\* copy fails, makes it equal to the source with size == capacity ==
\* source.size when it succeeds, and leaves a vector assigned to itself as it
\* was.  Fails when the source is a source of operator=(SimpleVector&&) (C2).
C8_CopyAssign == [][last'.op = "operator=(const&)" => CopyAssignLaw]_vars

\* C9: move construction b(std::move(a)) leaves a with size 0 and capacity 0,
\* and b with the size, the capacity and the elements a had, in a's array.
C9_MoveCtor ==
    [][last'.op = "SimpleVector(&&)" =>
          /\ vec'[last'.y].size_ = 0
          /\ vec'[last'.y].capacity_ = 0
          /\ vec'[last'.x].size_ = vec[last'.y].size_
          /\ vec'[last'.x].capacity_ = vec[last'.y].capacity_
          /\ Elements(heap', vec'[last'.x]) = Elements(heap, vec[last'.y])
          /\ Buffer(heap', vec'[last'.x]) = Buffer(heap, vec[last'.y])]_vars

\* A vector with two elements and a spare cell was moved from.
C9_Witness ==
    /\ last.op = "SimpleVector(&&)"
    /\ vec[last.x].size_ = 2
    /\ vec[last.x].capacity_ = 3
    /\ Elements(heap, vec[last.x]) = <<1, 0>>
    /\ vec[last.y] = SimpleVector

\* C10: a PushBack, Insert, Reserve or Resize whose allocation fails throws
\* bad_alloc to the caller and leaves both vectors and every array as they
\* were.
C10_AllocationFailure ==
    [][last'.err = "bad_alloc" /\ last'.op \in {"PushBack", "Insert", "Reserve", "Resize"} =>
          /\ \A x \in Vectors : vec'[x] = vec[x] /\ Kept(x)
          /\ heap' = heap]_vars

\* An Insert into a full vector of two elements threw bad_alloc.
C10_Witness ==
    /\ last.op = "Insert"
    /\ last.err = "bad_alloc"
    /\ vec[last.x].size_ = 2
    /\ vec[last.x].capacity_ = 2

\* What C11 says of a step Resize(k), k <= size.
ResizeDownLaw ==
    LET x == last'.x
        k == last'.arg
    IN  /\ last'.err = "none"
        /\ vec'[x].size_ = k
        /\ SubSeq(Elements(heap', vec'[x]), 1, k) = SubSeq(Elements(heap, vec[x]), 1, k)
        /\ vec'[x].capacity_ = vec[x].capacity_

\* C11: Resize(k) with k <= size on any vector, the source of a move
\* included, allocates nothing and leaves the size k, the elements at [0, k)
\* as they were and the capacity as it was.
C11_ResizeDown ==
    [][/\ \A x \in Vectors : \A k \in 0..vec[x].size_ :
              Resize(heap, vec[x], k, FALSE).err = "none"
       /\ Made("Resize") /\ last'.arg <= vec[last'.x].size_ => ResizeDownLaw]_vars

\* A vector of capacity 3 that held two elements or more was resized to 1:
\* the second cell keeps its stale value.
C11_Witness ==
    /\ last.op = "Resize"
    /\ last.err = "none"
    /\ last.arg = 1
    /\ last.cap = 3
    /\ vec[last.x].size_ = 1
    /\ vec[last.x].capacity_ = 3
    /\ Buffer(heap, vec[last.x]) = <<1, 1, Indet>>

\* What C12 says of a step Resize(n), n > size.
ResizeUpLaw ==
    LET x == last'.x
        n == last'.arg
        s == Elements(heap, vec[x])
        t == Elements(heap', vec'[x])
    IN  /\ last'.err = "none"
        /\ Len(t) = n
        /\ \A k \in (Len(s) + 1)..n : t[k] = DefaultValue
        /\ SubSeq(t, 1, Len(s)) = s

\* C12: Resize(n) with n > size on any vector leaves Type() at every position
\* of [old size, n), whatever those cells held, and the elements at
\* [0, old size) as they were.  Fails on the source of
\* operator=(SimpleVector&&), which has no array to write to (C2).
C12_ResizeUp == [][Made("Resize") /\ last'.arg > vec[last'.x].size_ => ResizeUpLaw]_vars

\* What C13 says of a step At(index).
AtLaw ==
    LET x == last'.x
        index == last'.arg
    IN  /\ last'.err = "out_of_range" <=> index >= vec[x].size_
        /\ index < vec[x].size_ =>
               /\ last'.err = "none"
               /\ last'.val = Elements(heap, vec[x])[index + 1]
        /\ Kept(x)
        /\ Elements(heap', vec'[x]) = Elements(heap, vec[x])

\* C13: At(index) on any vector throws out_of_range exactly when
\* index >= size, however large the capacity, returns the element at index
\* when index < size, and leaves size, capacity and elements as they were.
\* Fails on the source of operator=(SimpleVector&&): an index below the size_
\* it kept designates no element (C2).
C13_At == [][last'.op = "At" => AtLaw]_vars

\* What C14 says of a step Reserve(n).
ReserveLaw ==
    LET x == last'.x
        n == last'.arg
    IN  /\ last'.err = "none"
        /\ vec'[x].capacity_ = IF n > vec[x].capacity_ THEN n ELSE vec[x].capacity_
        /\ vec'[x].size_ = vec[x].size_
        /\ Elements(heap', vec'[x]) = Elements(heap, vec[x])

\* C14: Reserve(n) leaves the capacity max(old capacity, n), and the size and
\* the elements at [0, size) as they were.  Fails on the source of
\* operator=(SimpleVector&&), whose elements Reallocate cannot move (C2).
C14_Reserve == [][Made("Reserve") => ReserveLaw]_vars

\* s is lexicographically less than t: they agree on the first k positions,
\* and there s ends and t does not, or s has the smaller element.
LexLess(s, t) ==
    \E k \in 0..Len(s) :
        /\ k <= Len(t)
        /\ SubSeq(s, 1, k) = SubSeq(t, 1, k)
        /\ \/ k = Len(s) /\ k < Len(t)
           \/ k < Len(s) /\ k < Len(t) /\ s[k + 1] < t[k + 1]

\* What C15 says the comparison op of elements s with elements t gives.
Expected(op, s, t) ==
    CASE op = "==" -> s = t
      [] op = "!=" -> s # t
      [] op = "<" -> LexLess(s, t)
      [] op = "<=" -> LexLess(s, t) \/ s = t
      [] op = ">" -> LexLess(t, s)
      [] op = ">=" -> LexLess(t, s) \/ s = t

\* What C15 says of a comparison step: its result, and that of <, == and >
\* on the same two vectors exactly one is true.
CompareLaw ==
    LET x == last'.x
        y == last'.y
        lt == Compare("<", heap, vec[x], vec[y], x = y)
        eq == Compare("==", heap, vec[x], vec[y], x = y)
        gt == Compare(">", heap, vec[x], vec[y], x = y)
    IN  /\ last'.err = "none"
        /\ last'.val = IF Expected(last'.op, Elements(heap, vec[x]), Elements(heap, vec[y]))
                       THEN 1 ELSE 0
        /\ lt.err = "none" /\ eq.err = "none" /\ gt.err = "none"
        /\ Cardinality({r \in {"<", "==", ">"} :
                            Compare(r, heap, vec[x], vec[y], x = y).val}) = 1
        /\ \A z \in Vectors : vec'[z] = vec[z] /\ Kept(z)

\* C15: for any two vectors, == is true exactly when the elements at
\* [0, size) are the same sequence, < exactly when those of the left are
\* lexicographically less, !=, <=, > and >= agree with them, and exactly one
\* of <, ==, > is true; the result depends on nothing but those elements.
\* Fails when one of the two is the source of operator=(SimpleVector&&),
\* whose range [begin(), end()) lies in no array (C2).
C15_Comparisons == [][last'.op \in Comparisons => CompareLaw]_vars

\* Vector x after the step is what vector y was before it.
Became(x, y) ==
    /\ vec'[x].size_ = vec[y].size_
    /\ vec'[x].capacity_ = vec[y].capacity_
    /\ Elements(heap', vec'[x]) = Elements(heap, vec[y])
    /\ Buffer(heap', vec'[x]) = Buffer(heap, vec[y])

\* C16: x.swap(y) leaves each of the two vectors with the size, the capacity,
\* the elements and the array the other had, no cell of any array changed, and
\* a second swap gives both back what they had.
C16_Swap ==
    [][last'.op = "swap" =>
          LET x == last'.x
              y == last'.y
              s == Swap(vec'[x], vec'[y])
          IN  /\ last'.err = "none"
              /\ Became(x, y)
              /\ Became(y, x)
              /\ {heap'[p] : p \in DOMAIN heap'} = {heap[p] : p \in DOMAIN heap}
              /\ Cardinality(DOMAIN heap') = Cardinality(DOMAIN heap)
              /\ s.this.size_ = vec[x].size_
              /\ s.this.capacity_ = vec[x].capacity_
              /\ Buffer(heap', s.this) = Buffer(heap, vec[x])
              /\ s.other.size_ = vec[y].size_
              /\ s.other.capacity_ = vec[y].capacity_
              /\ Buffer(heap', s.other) = Buffer(heap, vec[y])]_vars

\* A vector holding <<1>> in an array of two cells was swapped with one
\* holding <<0>> in an array of one.
C16_Witness ==
    /\ last.op = "swap"
    /\ vec[last.x].size_ = 1
    /\ vec[last.x].capacity_ = 1
    /\ Elements(heap, vec[last.x]) = <<0>>
    /\ vec[last.y].size_ = 1
    /\ vec[last.y].capacity_ = 2
    /\ Elements(heap, vec[last.y]) = <<1>>

\* What C17 says of a PushBack or Insert step.
GrowLaw ==
    LET x == last'.x
        capacity == vec[x].capacity_
        full == vec[x].size_ = capacity
    IN  /\ last'.err = "none"
        /\ vec'[x].capacity_ = IF capacity = 0 THEN 1
                                ELSE IF full THEN 2 * capacity
                                ELSE capacity
        /\ ~full => /\ vec'[x].items_ = vec[x].items_
                    /\ DOMAIN heap' = DOMAIN heap
                    /\ Len(Buffer(heap', vec'[x])) = Len(Buffer(heap, vec[x]))
        /\ IF last'.op = "PushBack"
           THEN PushBackAllocations(vec[x]) = (IF full THEN 1 ELSE 0)
           ELSE InsertAllocations(vec[x]) = (IF full THEN 1 ELSE 0)

\* C17: PushBack and Insert on any vector leave the capacity 1 when it was 0,
\* twice what it was when the vector was full, and as it was otherwise, the
\* vector then keeping its array; a call allocates one array at most.  Fails
\* on the source of operator=(SimpleVector&&), which has no array to grow or
\* to write to (C2).
C17_GrowthPolicy == [][Made("PushBack") \/ Made("Insert") => GrowLaw]_vars

\* What C18 says of a step Resize(n).
ResizeCapacityLaw ==
    LET x == last'.x
        n == last'.arg
        capacity == vec[x].capacity_
    IN  /\ last'.err = "none"
        /\ vec'[x].capacity_ = IF n <= capacity THEN capacity
                                ELSE IF n > 2 * capacity THEN n
                                ELSE 2 * capacity
        /\ vec'[x].size_ = n

\* C18: Resize(n) leaves the capacity max(n, 2 * old capacity) when n is
\* larger than the capacity and as it was otherwise, and the size n.  Fails on
\* the source of operator=(SimpleVector&&), whose elements Reallocate cannot
\* move (C2).
C18_ResizeCapacity == [][Made("Resize") => ResizeCapacityLaw]_vars

\* What C19 says of a Clear or PopBack step.
ShrinkLaw ==
    LET x == last'.x
        n == IF last'.op = "Clear" THEN 0 ELSE vec[x].size_ - 1
    IN  /\ last'.err = "none"
        /\ vec'[x].size_ = n
        /\ vec'[x].capacity_ = vec[x].capacity_
        /\ vec'[x].items_ = vec[x].items_
        /\ heap' = heap
        /\ Elements(heap', vec'[x]) = SubSeq(Elements(heap, vec[x]), 1, n)

\* What C19 says of a Reserve or PushBack step that gave the vector a new
\* array: it holds the elements below the size, the pushed value, and nothing
\* of what the cells from the size on held.
CarryLaw ==
    LET x == last'.x
        s == Elements(heap, vec[x])
        t == IF last'.op = "PushBack" THEN Append(s, last'.val) ELSE s
    IN  Buffer(heap', vec'[x])
            = t \o [k \in 1..(vec'[x].capacity_ - Len(t)) |-> Indet]

\* C19: Clear leaves the size 0 and PopBack on a non-empty vector the size
\* one smaller; both leave the capacity, the array the vector owns and every
\* cell of it as they were, so the elements below the new size too; and a
\* Reserve or PushBack that reallocates carries over the elements below the
\* size and no other cell.
C19_LogicalShrink ==
    [][/\ last'.op \in {"Clear", "PopBack"} => ShrinkLaw
       /\ (/\ last'.op \in {"Reserve", "PushBack"}
           /\ last'.err = "none"
           /\ vec'[last'.x].capacity_ # vec[last'.x].capacity_) => CarryLaw]_vars

\* PopBack on a vector holding <<1, 1>>: the size is 1, and the second cell
\* still holds its 1.
C19_Witness ==
    /\ last.op = "PopBack"
    /\ vec[last.x].size_ = 1
    /\ vec[last.x].capacity_ = 2
    /\ Buffer(heap, vec[last.x]) = <<1, 1>>

-----------------------------------------------------------------------------
\* C4 to C8, C12 to C15, C17 and C18 fail only through the vector that
\* operator=(SimpleVector&&) left behind: each holds of the calls made on
\* vectors whose members describe the array they own.

InsertOnSound == [][Made("Insert") /\ Sound(heap, vec[last'.x]) => InsertLaw]_vars

EraseOnSound == [][Made("Erase") /\ Sound(heap, vec[last'.x]) => EraseLaw]_vars

InsertEraseOnSound == [][Made("Insert") /\ Sound(heap, vec[last'.x]) => InsertEraseLaw]_vars

CopyOnSound ==
    [][Made("SimpleVector(const&)") /\ Sound(heap, vec[last'.y]) => CopyLaw]_vars

CopyAssignOnSound ==
    [][last'.op = "operator=(const&)" /\ Sound(heap, vec[last'.y]) => CopyAssignLaw]_vars

ResizeUpOnSound ==
    [][Made("Resize") /\ last'.arg > vec[last'.x].size_ /\ Sound(heap, vec[last'.x])
          => ResizeUpLaw]_vars

AtOnSound == [][last'.op = "At" /\ Sound(heap, vec[last'.x]) => AtLaw]_vars

ReserveOnSound == [][Made("Reserve") /\ Sound(heap, vec[last'.x]) => ReserveLaw]_vars

ComparisonsOnSound ==
    [][last'.op \in Comparisons /\ Sound(heap, vec[last'.x]) /\ Sound(heap, vec[last'.y])
          => CompareLaw]_vars

GrowOnSound ==
    [][(Made("PushBack") \/ Made("Insert")) /\ Sound(heap, vec[last'.x]) => GrowLaw]_vars

\* A full vector of capacity 3 was pushed to or inserted into: capacity 6.
GrowFromThree ==
    /\ last.op \in {"PushBack", "Insert"}
    /\ last.cap = 3
    /\ vec[last.x].size_ = 4
    /\ vec[last.x].capacity_ = 6

ResizeCapacityOnSound ==
    [][Made("Resize") /\ Sound(heap, vec[last'.x]) => ResizeCapacityLaw]_vars

====
